---- MODULE Spec2Model ----
(***************************************************************************)
(* Model of cmd/bd/backup_export.go: the JSONL backup exporter.            *)
(*                                                                         *)
(* The store is a log of commits, each one row insert or the deletion of   *)
(* every row of a table; the n-th insert into a table has key n            *)
(* (auto-increment), and the store's current commit is determined by the   *)
(* length of the log.                                                      *)
(* The backup directory is a map from file name to content, a file's       *)
(* content being its sequence of lines.  One run of runBackupExport is a    *)
(* sequence of steps, one per store query or file-system call, so that     *)
(* store commits, failures and crashes can fall between any two of them.   *)
(***************************************************************************)
EXTENDS Naturals, Integers, Sequences, FiniteSets, TLC

\* ---------------------------------------------------------------- bounds
MaxCommits == 2      \* commits the store receives in one behaviour
MaxRuns == 3         \* invocations of runBackupExport in one behaviour

\* Tables that receive inserts in the model (the other tables stay empty).
InsertTables == {"issues", "events", "wisp_events"}

\* ---------------------------------------------------------------- store
CommitNames == <<"c1", "c2", "c3", "c4", "c5", "c6", "c7", "c8">>

\* store.GetCurrentCommit: "" before the first commit, then one hash per commit
CommitAt(k) == IF k = 0 THEN "" ELSE CommitNames[k]

IsWispTable(t) == t \in {"wisps", "wisp_events", "wisp_comments",
                         "wisp_dependencies", "wisp_labels"}

\* Tables a client empties in the model (DELETE FROM t); the event tables are
\* append-only.
DeleteTables == {"issues"}

\* the log entry of a commit that deletes every row of table t
DeleteOf(t) == IF t = "issues" THEN "delete issues" ELSE "delete none"

\* number of inserts into table t among the first k commits of l; the n-th
\* insert into a table has key n
Inserts(t, l, k) == Cardinality({i \in 1..k : l[i] = t})

\* position in l of the last commit that emptied table t (0: there is none)
LastDelete(t, l) ==
    IF \E i \in 1..Len(l) : l[i] = DeleteOf(t)
    THEN CHOOSE i \in 1..Len(l) :
            /\ l[i] = DeleteOf(t)
            /\ \A j \in (i + 1)..Len(l) : l[j] # DeleteOf(t)
    ELSE 0

\* keys of the rows table t holds after the commits of l
Keys(t, l) == (Inserts(t, l, LastDelete(t, l)) + 1)..Inserts(t, l, Len(l))

\* number of rows of table t after the commits of l
RowCount(t, l) == Cardinality(Keys(t, l))

\* ---------------------------------------------------------------- files
StateFile == "backup_state.json"
EventsFile == "events.jsonl"
TmpName == ".backup-tmp-*"

Entities == <<"issues", "events", "comments", "dependencies", "labels", "config">>
SnapshotEntities == {"issues", "comments", "dependencies", "labels", "config"}

FileOf(e) == IF e = "issues" THEN "issues.jsonl"
             ELSE IF e = "events" THEN EventsFile
             ELSE IF e = "comments" THEN "comments.jsonl"
             ELSE IF e = "dependencies" THEN "dependencies.jsonl"
             ELSE IF e = "labels" THEN "labels.jsonl"
             ELSE IF e = "config" THEN "config.jsonl"
             ELSE StateFile

DataFiles == {FileOf(Entities[i]) : i \in 1..Len(Entities)}
FileNames == DataFiles \cup {StateFile, TmpName}

Absent == [exists |-> FALSE, data |-> <<>>]
File(d) == [exists |-> TRUE, data |-> d]

\* ---------------------------------------------------------------- backupState
ZeroCounts == [issues |-> 0, events |-> 0, comments |-> 0,
               dependencies |-> 0, labels |-> 0, config |-> 0]
ZeroState == [LastDoltCommit |-> "", LastEventID |-> 0, Timestamp |-> 0,
              Counts |-> ZeroCounts]

\* loadBackupState: zero state when the file is missing, error when it does
\* not hold exactly one JSON document
loadBackupState(d) ==
    IF ~d[StateFile].exists THEN [err |-> FALSE, state |-> ZeroState]
    ELSE IF Len(d[StateFile].data) # 1 THEN [err |-> TRUE, state |-> ZeroState]
    ELSE [err |-> FALSE, state |-> d[StateFile].data[1]]

\* ---------------------------------------------------------------- queries
PrimaryTable(e) == e
ShadowTable(e) == IF e = "issues" THEN "wisps" ELSE
                  IF e = "events" THEN "wisp_events" ELSE
                  IF e = "comments" THEN "wisp_comments" ELSE
                  IF e = "dependencies" THEN "wisp_dependencies" ELSE
                  IF e = "labels" THEN "wisp_labels" ELSE "none"

\* rows of table t with key > wm
RowsOf(t, l, wm) == {[tbl |-> t, id |-> i] : i \in {k \in Keys(t, l) : k > wm}}

\* the row set a query selects: primary, UNION ALL shadow when hasWisps
Selected(e, l, hw, wm) ==
    RowsOf(PrimaryTable(e), l, wm) \cup
    (IF hw /\ ShadowTable(e) # "none" THEN RowsOf(ShadowTable(e), l, wm) ELSE {})

\* ORDER BY id: every ordering of the selected rows with ascending keys
\* (SQL leaves the order of rows with equal keys open)
OrderedBy(S) ==
    {s \in [1..Cardinality(S) -> S] :
        /\ \A i, j \in 1..Cardinality(S) : i # j => s[i] # s[j]
        /\ \A i, j \in 1..Cardinality(S) : i < j => s[i].id <= s[j].id}

QueryResults(e, l, hw, wm) == OrderedBy(Selected(e, l, hw, wm))

\* exportEventsIncremental's high-water mark over the scanned rows
RECURSIVE MaxIDFrom(_, _)
MaxIDFrom(rows, m) ==
    IF rows = <<>> THEN m
    ELSE MaxIDFrom(Tail(rows), IF Head(rows).id > m THEN Head(rows).id ELSE m)

MaxID(rows) == MaxIDFrom(rows, 0)

Prefix(s, k) == SubSeq(s, 1, k)

\* ---------------------------------------------------------------- policy
\* change detection of runBackupExport
ShouldSkipInverted(cur, st) == cur = st.LastDoltCommit /\ st.LastDoltCommit = ""
ShouldSkip(cur, st) == cur = st.LastDoltCommit /\ st.LastDoltCommit # ""

\* the path atomicWriteFile writes the payload to before the rename
TmpPathInPlace(path) == path
TmpPath(path) == TmpName

\* an export function returning an error before its write leaves the disk alone
OnExportErrorFlush(d, f, buf) == [d EXCEPT ![f] = File(buf)]
OnExportError(d, f, buf) == d

\* count == 0: nothing to write
NoNewRowsNever(rows) == FALSE
NoNewRows(rows) == Len(rows) = 0

\* first export (full snapshot via atomic write) or incremental append
IsFirstExportNever(st) == FALSE
IsFirstExport(st) == st.LastEventID = 0

\* os.OpenFile(O_APPEND|O_CREATE|O_WRONLY) followed by Write
AppendTruncating(old, new) == new
AppendData(old, new) == old \o new

\* state.Counts.Events += n
EventsCountOverwrite(old, n) == n
EventsCount(old, n) == old + n

\* the order of the steps of runBackupExport after entity e
NextEntEventsLast(e) == IF e = "issues" THEN "comments"
              ELSE IF e = "comments" THEN "dependencies"
              ELSE IF e = "dependencies" THEN "labels"
              ELSE IF e = "labels" THEN "config"
              ELSE IF e = "config" THEN "events"
              ELSE "state"
NextEntSkipConfig(e) == IF e = "issues" THEN "events"
              ELSE IF e = "events" THEN "comments"
              ELSE IF e = "comments" THEN "dependencies"
              ELSE IF e = "dependencies" THEN "labels"
              ELSE "state"
NextEnt(e) == IF e = "issues" THEN "events"
              ELSE IF e = "events" THEN "comments"
              ELSE IF e = "comments" THEN "dependencies"
              ELSE IF e = "dependencies" THEN "labels"
              ELSE IF e = "labels" THEN "config"
              ELSE "state"

PcOf(e) == IF e = "events" THEN "exportEvents"
           ELSE IF e = "state" THEN "commit"
           ELSE "exportTable"

\* ---------------------------------------------------------------- state
VARIABLES
    log,         \* store: the commits, in order (inserts and deletions)
    wispsExist,  \* store: the wisps tables exist
    disk,        \* backup directory: file name -> content
    stray,       \* history: the current or last run left a temp file behind
    now,         \* clock: number of runs started
    pc,          \* position of the current run ("idle": no run)
    ent,         \* entity the run is exporting ("state": the state file)
    state,       \* the run's in-memory backupState
    force,       \* the run's force parameter, until it is read
    hasWisps,    \* the run's tableExistsCheck result
    lines,       \* the buffer to be written
    maxID,       \* the maxID of exportEventsIncremental
    disk0,       \* history: disk when the current or last run started
    written,     \* history: files the current or last run modified, in order
    evRows,      \* history: rows the run's incremental query found
    evCount,     \* history: their number (-1: the query has not returned)
    evSeen,      \* history: rows the two event tables held at that query
    pending,     \* history: rows a failed run appended after the last state save
    failedAppend,\* history: a run loaded a watermark above 0, appended, failed
    last,        \* history: outcome of the last step of a run
    ret          \* history: what the last finished run returned

vars == <<log, wispsExist, disk, stray, now, pc, ent, state, force, hasWisps, lines,
          maxID, disk0, written, evRows, evCount, evSeen, pending,
          failedAppend, last, ret>>

AwPcs == {"awCreate", "awWrite", "awSync", "awRename"}
EvPcs == {"evOpen", "evWrite", "evClose"}

NoRet == [ok |-> FALSE, state |-> ZeroState]
Returned(st) == [ok |-> TRUE, state |-> st]

Init ==
    /\ log = <<>>
    /\ wispsExist \in BOOLEAN
    /\ disk = [f \in FileNames |-> Absent]
    /\ stray = FALSE
    /\ now = 0
    /\ pc = "idle"
    /\ ent = "none"
    /\ state = ZeroState
    /\ force = FALSE
    /\ hasWisps = FALSE
    /\ lines = <<>>
    /\ maxID = 0
    /\ disk0 = [f \in FileNames |-> Absent]
    /\ written = <<>>
    /\ evRows = <<>>
    /\ evCount = -1
    /\ evSeen = {}
    /\ pending = <<>>
    /\ failedAppend = FALSE
    /\ last = "init"
    /\ ret = NoRet

\* the state the current or last run loaded
Loaded == loadBackupState(disk0).state
StartWM == Loaded.LastEventID
WrittenSet == {written[i] : i \in 1..Len(written)}

\* ---------------------------------------------------------------- store actions
\* A client commits one insert into table t: the table gets its next key and
\* the store's current commit changes.
StoreCommit(t) ==
    /\ Len(log) < MaxCommits
    /\ t \in InsertTables
    /\ IsWispTable(t) => wispsExist
    /\ log' = Append(log, t)
    /\ UNCHANGED <<wispsExist, disk, stray, now, pc, ent, state, force, hasWisps, lines,
                   maxID, disk0, written, evRows, evCount, evSeen,
                   pending, failedAppend, last, ret>>

\* A client commits the deletion of every row of table t.
StoreDelete(t) ==
    /\ Len(log) < MaxCommits
    /\ t \in DeleteTables
    /\ RowCount(t, log) > 0
    /\ log' = Append(log, DeleteOf(t))
    /\ UNCHANGED <<wispsExist, disk, stray, now, pc, ent, state, force, hasWisps, lines,
                   maxID, disk0, written, evRows, evCount, evSeen,
                   pending, failedAppend, last, ret>>

\* ---------------------------------------------------------------- run steps
\* the run is over: its locals are gone
EndRun(lbl, r) ==
    /\ pc' = "idle"
    /\ ent' = "none"
    /\ state' = ZeroState
    /\ force' = FALSE
    /\ hasWisps' = FALSE
    /\ lines' = <<>>
    /\ maxID' = 0
    /\ evSeen' = {}
    /\ last' = lbl
    /\ ret' = r

\* the run has returned from an incremental append (not the first export)
AppendedEvents ==
    /\ StartWM > 0
    /\ evCount > 0
    /\ ent \in {"comments", "dependencies", "labels", "config", "state"}

\* the run loaded a watermark above 0 and has appended to events.jsonl, in an
\* earlier step or in this one
HasAppended ==
    /\ StartWM > 0
    /\ \/ EventsFile \in WrittenSet
       \/ pc = "evWrite" /\ disk'[EventsFile] # disk[EventsFile]

\* return nil, err: the state is not saved
FailWith(lbl) ==
    /\ EndRun(lbl, NoRet)
    /\ pending' = IF AppendedEvents THEN evRows ELSE pending
    /\ failedAppend' = (failedAppend \/ HasAppended)

Fail == FailWith("error")

\* outcome of a scan loop that failed with k rows buffered
ScanError(k) == IF k > 0 THEN "scanerr" ELSE "error"
Errors == {"error", "scanerr", "awerr"}

\* atomicWriteFile returns an error
AwFail == FailWith("awerr")

\* the next step of runBackupExport is the export of e
Goto(e) ==
    /\ pc' = PcOf(e)
    /\ ent' = e
    /\ lines' = <<>>
    /\ maxID' = 0
    /\ ret' = NoRet

\* the steps of a run before its first export
PrePcs == {"backupDir", "loadBackupState", "GetCurrentCommit", "tableExistsCheck"}

\* a step before the first export returns normally: the run goes on to pc p
PreStep(p) ==
    /\ pc' = p
    /\ last' = "step"
    /\ UNCHANGED <<ent, lines, maxID, ret, evSeen, failedAppend>>

\* runBackupExport line 129: the call, with its force argument
Begin(f) ==
    /\ pc = "idle"
    /\ now < MaxRuns
    /\ now' = now + 1
    /\ disk0' = disk
    /\ written' = <<>>
    /\ evRows' = <<>>
    /\ evCount' = -1
    /\ stray' = FALSE
    /\ force' = f
    /\ PreStep("backupDir")
    /\ UNCHANGED <<log, wispsExist, disk, pending, state, hasWisps>>

preFrame == <<log, wispsExist, disk, stray, now, disk0, written, evRows,
              evCount, pending>>

\* backupDir lines 65-68: os.MkdirAll of a directory that exists
BackupDir ==
    /\ pc = "backupDir"
    /\ \E fail \in BOOLEAN :
          IF fail
          THEN Fail
          ELSE PreStep("loadBackupState") /\ UNCHANGED <<state, force, hasWisps>>
    /\ UNCHANGED preFrame

\* runBackupExport lines 135-141 and loadBackupState: read and parse the
\* state file, then test force, which is not read again
LoadState ==
    /\ pc = "loadBackupState"
    /\ LET ld == loadBackupState(disk) IN
       \E fail \in BOOLEAN :
          IF fail \/ ld.err
          THEN Fail
          ELSE /\ state' = ld.state
               /\ force' = FALSE
               /\ PreStep(IF force THEN "tableExistsCheck" ELSE "GetCurrentCommit")
               /\ UNCHANGED hasWisps
    /\ UNCHANGED preFrame

\* runBackupExport lines 142-149: the change detection of a run without force
ChangeDetection ==
    /\ pc = "GetCurrentCommit"
    /\ \E fail \in BOOLEAN :
          IF fail
          THEN Fail
          ELSE IF ShouldSkip(CommitAt(Len(log)), state)
          THEN EndRun("short", Returned(state)) /\ UNCHANGED failedAppend
          ELSE /\ pc' = "tableExistsCheck"
               /\ last' = "changed"
               /\ UNCHANGED <<ent, lines, maxID, ret, evSeen, failedAppend,
                              state, force, hasWisps>>
    /\ UNCHANGED preFrame

\* runBackupExport line 152 and tableExistsCheck lines 235-242: a query that
\* fails counts as "no such table"
TableExistsCheck ==
    /\ pc = "tableExistsCheck"
    /\ \E probeErr \in BOOLEAN :
          /\ hasWisps' = (wispsExist /\ ~probeErr)
          /\ pc' = "exportTable"
          /\ ent' = "issues"
          /\ last' = "step"
          /\ UNCHANGED <<lines, maxID, ret, evSeen, failedAppend, state, force>>
    /\ UNCHANGED preFrame

\* exportTable lines 254-297: query, scan and buffer every row
ExportTable ==
    /\ pc = "exportTable"
    /\ \E rows \in QueryResults(ent, log, hasWisps, 0) :
       \E k \in 0..Len(rows), fail \in BOOLEAN :
          IF fail
             THEN /\ disk' = OnExportError(disk, FileOf(ent), Prefix(rows, k))
                  /\ FailWith(ScanError(k))
             ELSE /\ k = Len(rows)
                  /\ lines' = rows
                  /\ pc' = "awCreate"
                  /\ last' = "step"
                  /\ UNCHANGED <<disk, ent, state, force, hasWisps, maxID, ret, pending,
                                 failedAppend, evSeen>>
    /\ UNCHANGED <<log, wispsExist, stray, now, disk0, written, evRows,
                   evCount>>

\* exportEventsIncremental lines 303-376: query rows above the watermark,
\* buffer them, track the high-water mark, choose the placement
ExportEvents ==
    /\ pc = "exportEvents"
    /\ \E rows \in QueryResults("events", log, hasWisps, state.LastEventID) :
       \E k \in 0..Len(rows), fail \in BOOLEAN :
          IF fail
             THEN /\ disk' = OnExportError(disk, EventsFile, Prefix(rows, k))
                  /\ FailWith(ScanError(k))
                  /\ UNCHANGED <<evRows, evCount>>
             ELSE /\ k = Len(rows)
                  /\ evRows' = rows
                  /\ evCount' = Len(rows)
                  /\ evSeen' = Selected("events", log, wispsExist, 0)
                  /\ last' = "step"
                  /\ UNCHANGED <<disk, pending, failedAppend, force, hasWisps>>
                  /\ IF NoNewRows(rows)
                     THEN /\ state' = [state EXCEPT !.Counts.events = EventsCount(@, 0)]
                          /\ Goto(NextEnt("events"))
                     ELSE /\ lines' = rows
                          /\ maxID' = MaxID(rows)
                          /\ pc' = IF IsFirstExport(state) THEN "awCreate"
                                                           ELSE "evOpen"
                          /\ UNCHANGED <<ent, state, ret>>
    /\ UNCHANGED <<log, wispsExist, stray, now, disk0, written>>

\* the statements of runBackupExport after a successful export of ent
AfterExport ==
    IF ent = "state"
    THEN /\ EndRun("completed", Returned(state))
         /\ pending' = <<>>
         /\ UNCHANGED failedAppend
    ELSE /\ state' = IF ent = "events"
                     THEN [state EXCEPT !.LastEventID = maxID,
                                        !.Counts.events =
                                            EventsCount(@, Len(lines))]
                     ELSE [state EXCEPT !.Counts[ent] = Len(lines)]
         /\ Goto(NextEnt(ent))
         /\ last' = "step"
         /\ UNCHANGED <<force, hasWisps, pending, failedAppend, evSeen>>

\* os.Remove that succeeds
RemoveFile(d, f) == [d EXCEPT ![f] = Absent]

\* _ = os.Remove(tmpPath): the file is removed, or the removal fails, the
\* error is discarded and the file stays in the directory.  disk[TmpName] is
\* the temp file of the call in progress; a file a finished call left behind
\* is recorded in stray, because no later call reads it or reuses its name
\* (os.CreateTemp picks a name no file has).
RemoveIgnoringError(f) ==
    \E removed \in BOOLEAN :
        /\ disk' = RemoveFile(disk, f)
        /\ stray' = (stray \/ (disk[f].exists /\ ~removed))

\* os.Rename
RenameDropped(d, from, to) == RemoveFile(d, from)
Rename(d, from, to) == IF from = to THEN d
                       ELSE [d EXCEPT ![to] = d[from], ![from] = Absent]

awFrame == <<log, wispsExist, now, disk0, evRows, evCount>>
awLocals == <<ent, state, force, hasWisps, lines, maxID, ret, pending, failedAppend,
              evSeen>>

\* atomicWriteFile line 100: os.CreateTemp
AwCreate ==
    /\ pc = "awCreate"
    /\ \E fail \in BOOLEAN :
          IF fail
          THEN AwFail /\ UNCHANGED <<disk, stray>>
          ELSE /\ disk' = [disk EXCEPT ![TmpPath(FileOf(ent))] = File(<<>>)]
               /\ UNCHANGED stray
               /\ pc' = "awWrite"
               /\ last' = "step"
               /\ UNCHANGED awLocals
    /\ UNCHANGED <<awFrame, written>>

\* atomicWriteFile lines 106-110: tmp.Write
AwWrite ==
    /\ pc = "awWrite"
    /\ \E fail \in BOOLEAN :
          IF fail
          THEN AwFail /\ RemoveIgnoringError(TmpPath(FileOf(ent)))
          ELSE /\ disk' = [disk EXCEPT ![TmpPath(FileOf(ent))] = File(lines)]
               /\ pc' = "awSync"
               /\ last' = "step"
               /\ UNCHANGED <<awLocals, stray>>
    /\ UNCHANGED <<awFrame, written>>

\* atomicWriteFile lines 111-119: tmp.Sync and tmp.Close
AwSyncClose ==
    /\ pc = "awSync"
    /\ \E fail \in BOOLEAN :
          IF fail
          THEN AwFail /\ RemoveIgnoringError(TmpPath(FileOf(ent)))
          ELSE /\ pc' = "awRename"
               /\ last' = "step"
               /\ UNCHANGED <<disk, awLocals, stray>>
    /\ UNCHANGED <<awFrame, written>>

\* atomicWriteFile lines 120-124: os.Rename, then back in the caller
AwRename ==
    /\ pc = "awRename"
    /\ \E fail \in BOOLEAN :
          IF fail
          THEN /\ AwFail
               /\ RemoveIgnoringError(TmpPath(FileOf(ent)))
               /\ UNCHANGED written
          ELSE /\ disk' = Rename(disk, TmpPath(FileOf(ent)), FileOf(ent))
               /\ written' = Append(written, FileOf(ent))
               /\ AfterExport
               /\ UNCHANGED stray
    /\ UNCHANGED awFrame

\* exportEventsIncremental line 378: os.OpenFile(O_APPEND|O_CREATE|O_WRONLY)
EvOpen ==
    /\ pc = "evOpen"
    /\ \E fail \in BOOLEAN :
          IF fail
          THEN Fail /\ UNCHANGED <<disk, written>>
          ELSE /\ disk' = IF disk[EventsFile].exists THEN disk
                          ELSE [disk EXCEPT ![EventsFile] = File(<<>>)]
               /\ written' = IF disk[EventsFile].exists THEN written
                             ELSE Append(written, EventsFile)
               /\ pc' = "evWrite"
               /\ last' = "step"
               /\ UNCHANGED awLocals
    /\ UNCHANGED <<awFrame, stray>>

\* exportEventsIncremental lines 382-385: f.Write; a failing write may have
\* appended a proper prefix of the buffer
EvWrite ==
    /\ pc = "evWrite"
    /\ \E k \in 0..Len(lines) :
          /\ disk' = [disk EXCEPT ![EventsFile] =
                        File(AppendData(@.data, Prefix(lines, k)))]
          /\ written' = IF k > 0 THEN Append(written, EventsFile) ELSE written
          /\ IF k < Len(lines)
             THEN Fail
             ELSE /\ pc' = "evClose"
                  /\ last' = "step"
                  /\ UNCHANGED awLocals
    /\ UNCHANGED <<awFrame, stray>>

\* exportEventsIncremental lines 386-392: f.Close, advance the watermark
EvClose ==
    /\ pc = "evClose"
    /\ \E fail \in BOOLEAN :
          IF fail THEN Fail ELSE AfterExport
    /\ UNCHANGED <<awFrame, stray, disk, written>>

\* runBackupExport lines 219-227 and saveBackupState line 90: re-read the
\* commit, stamp the time, serialize the state
Commit ==
    /\ pc = "commit"
    /\ \E fail \in BOOLEAN :
          IF fail
          THEN Fail
          ELSE LET st == [state EXCEPT !.LastDoltCommit = CommitAt(Len(log)),
                                       !.Timestamp = now] IN
               /\ state' = st
               /\ lines' = <<st>>
               /\ pc' = "awCreate"
               /\ last' = "step"
               /\ UNCHANGED <<ent, force, hasWisps, maxID, ret, pending, failedAppend,
                              evSeen>>
    /\ UNCHANGED <<awFrame, stray, disk, written>>

\* The process dies between two steps, or inside a write that has put a
\* prefix of the buffer on disk.  A temp file that exists stays behind.
Crash ==
    /\ pc # "idle"
    /\ \E k \in 0..Len(lines) :
          LET d1 == IF pc = "awWrite"
                    THEN [disk EXCEPT ![TmpPath(FileOf(ent))] = File(Prefix(lines, k))]
                    ELSE IF pc = "evWrite"
                    THEN [disk EXCEPT ![EventsFile] =
                            File(AppendData(@.data, Prefix(lines, k)))]
                    ELSE disk
          IN /\ disk' = RemoveFile(d1, TmpName)
             /\ stray' = (stray \/ d1[TmpName].exists)
             /\ written' = IF pc = "evWrite" /\ k > 0
                           THEN Append(written, EventsFile) ELSE written
    /\ EndRun("crash", NoRet)
    /\ pending' = IF AppendedEvents THEN evRows ELSE pending
    /\ failedAppend' = (failedAppend \/ HasAppended)
    /\ UNCHANGED <<log, wispsExist, now, disk0, evRows, evCount>>

Next ==
    \/ \E t \in InsertTables : StoreCommit(t)
    \/ \E t \in DeleteTables : StoreDelete(t)
    \/ \E f \in BOOLEAN : Begin(f)
    \/ BackupDir
    \/ LoadState
    \/ ChangeDetection
    \/ TableExistsCheck
    \/ ExportTable
    \/ ExportEvents
    \/ AwCreate
    \/ AwWrite
    \/ AwSyncClose
    \/ AwRename
    \/ EvOpen
    \/ EvWrite
    \/ EvClose
    \/ Commit
    \/ Crash

Spec == Init /\ [][Next]_vars

TypeOK ==
    /\ pc \in {"idle", "exportTable", "exportEvents", "commit"}
             \cup PrePcs \cup AwPcs \cup EvPcs
    /\ Len(log) <= MaxCommits
    /\ now <= MaxRuns

\* ---------------------------------------------------------------- claims
Issue(i) == [tbl |-> "issues", id |-> i]
Event(i) == [tbl |-> "events", id |-> i]
WispEvent(i) == [tbl |-> "wisp_events", id |-> i]

\* the run has returned from the atomic write it was in
AwReturnedOk == pc = "awRename" /\ pc' # "awRename" /\ last' \in {"step", "completed"}

C1_Step ==
    pc \in AwPcs =>
        /\ disk'[FileOf(ent)] \in {disk[FileOf(ent)], File(lines)}
        /\ (disk'[FileOf(ent)] # disk[FileOf(ent)] => pc = "awRename")
        /\ (AwReturnedOk => disk'[FileOf(ent)] = File(lines))

\* C1: atomicWriteFile is crash-atomic for the target path.  In every step
\* taken while a call atomicWriteFile(X, P) is in progress (a step of the
\* call, a failure, a crash, a concurrent commit) the content of X stays what
\* it was or becomes exactly P; it changes only in the rename; and when the
\* call returns successfully X holds exactly P.
C1_AtomicWrite == [][C1_Step]_vars

\* a second run crashed inside the atomic write of issues.jsonl, whose new
\* payload has two rows: the file still holds the one row of the first run
C1_Witness ==
    /\ last = "crash"
    /\ now = 2
    /\ stray
    /\ written = <<>>
    /\ disk[StateFile].exists
    /\ RowCount("issues", log) = 2
    /\ disk["issues.jsonl"] = File(<<Issue(1)>>)

\* C2: a run that fails at any step leaves backup_state.json as it was when
\* the run started.
C2_FailedRunKeepsState ==
    last \in Errors => disk[StateFile] = disk0[StateFile]

\* a run failed after it had rewritten two entity files, one of them with new
\* content, and a state file of an earlier run exists
C2_Witness ==
    /\ last = "error"
    /\ Len(written) >= 2
    /\ disk0[StateFile].exists
    /\ disk["issues.jsonl"] # disk0["issues.jsonl"]

C3_Step ==
    /\ pc \in PrePcs => (disk' = disk /\ ~stray' /\ written' = <<>>)
    /\ (/\ ChangeDetection
        /\ ~loadBackupState(disk).err
        /\ loadBackupState(disk).state.LastDoltCommit # ""
        /\ loadBackupState(disk).state.LastDoltCommit = CommitAt(Len(log)))
       => /\ pc' = "idle"
          /\ last' \in {"short"} \cup Errors
          /\ disk' = disk
          /\ ~stray'
          /\ written' = <<>>
          /\ (last' = "short" => ret' = Returned(loadBackupState(disk).state))

\* C3: a run without force that finds the store's current commit equal to the
\* persisted, non-empty last commit changes no file, creates no temp file and
\* returns the state it loaded (or fails in its commit query, still without
\* writing); no step before the first export, a crash included, changes a
\* file or leaves a temp file.
C3_ShortCircuit == [][C3_Step]_vars

\* the third run short-circuited on a store with data, after a completed run
C3_Witness ==
    /\ last = "short"
    /\ now = 3
    /\ Len(log) > 0
    /\ disk = disk0
    /\ disk[StateFile].exists
    /\ ret = Returned(disk[StateFile].data[1])
    /\ disk["issues.jsonl"].exists

\* ---------------------------------------------------------------- helpers
IsPrefix(a, b) == Len(a) <= Len(b) /\ Prefix(b, Len(a)) = a
Occurrences(x, q) == Cardinality({i \in 1..Len(q) : q[i] = x})
Range(q) == {q[i] : i \in 1..Len(q)}
Ascending(q) == \A i, j \in 1..Len(q) : i < j => q[i].id <= q[j].id

\* the watermark and the commit backup_state.json records
PersistedWM(d) == loadBackupState(d).state.LastEventID
PersistedCommit(d) == loadBackupState(d).state.LastDoltCommit

\* the number of commits the store had when its current commit was c
RevOf(c) == CHOOSE k \in 0..Len(CommitNames) : CommitAt(k) = c

\* the run has returned from exportEventsIncremental without error
PastEvents ==
    /\ pc # "idle"
    /\ ent \in {"comments", "dependencies", "labels", "config", "state"}

\* C4: the watermark recorded in backup_state.json never decreases over a
\* run, and it increases only in a completed run whose incremental query
\* found at least one new row.
C4_WatermarkMonotone ==
    /\ PersistedWM(disk) >= PersistedWM(disk0)
    /\ PersistedWM(disk) > PersistedWM(disk0) => evCount > 0 /\ last = "completed"

\* a run has raised a watermark that an earlier run had already raised
C4_Witness ==
    /\ PersistedWM(disk0) > 0
    /\ PersistedWM(disk) > PersistedWM(disk0)

\* C5: after a completed run, each full-snapshot file holds the rows its
\* tables had at the commit that backup_state.json records, so that a later
\* short-circuit on that commit loses nothing.
C5_FilesReflectRecordedRevision ==
    last = "completed" =>
        \A e \in SnapshotEntities :
            \E hw \in BOOLEAN :
                Range(disk[FileOf(e)].data) =
                    Selected(e, Prefix(log, RevOf(PersistedCommit(disk))), hw, 0)

\* C6: a call of exportEventsIncremental that finds new rows and returns
\* without error leaves events.jsonl holding exactly the new rows, ascending
\* by key, when the loaded watermark is 0, and its previous content followed
\* by the new rows otherwise; with a watermark above 0 the previous content
\* stays a prefix of the file in every state of the run.
C6_Placement ==
    /\ (evCount > 0 /\ (PastEvents \/ last = "completed")) =>
          /\ Ascending(evRows)
          /\ Len(evRows) = evCount
          /\ IF StartWM = 0
             THEN disk[EventsFile] = File(evRows)
             ELSE disk[EventsFile] = File(disk0[EventsFile].data \o evRows)
    /\ StartWM > 0 => IsPrefix(disk0[EventsFile].data, disk[EventsFile].data)

\* the second run appended event 2 after the event 1 the first run exported
C6_Witness ==
    /\ last = "completed"
    /\ now = 2
    /\ disk0[EventsFile] = File(<<Event(1)>>)
    /\ disk[EventsFile] = File(<<Event(1), Event(2)>>)
    /\ PersistedWM(disk) = 2

\* C7: rows a failed run appended above a watermark greater than 0
\* are not covered by the persisted watermark, and once a later run has
\* returned from its incremental export every one of them is in events.jsonl
\* twice.
C7_AllPendingRowsTwice ==
    /\ \A i \in 1..Len(pending) : pending[i].id > PersistedWM(disk)
    /\ PastEvents =>
          \A i \in 1..Len(pending) :
              Occurrences(pending[i], disk[EventsFile].data) >= 2

\* C8 as stated: once the run has replaced backup_state.json, every one of
\* the six entity files has been written by the run, the state file was
\* written once and last, and the run is over.
C8_StateAfterAllSixFiles ==
    StateFile \in WrittenSet =>
        /\ DataFiles \subseteq WrittenSet
        /\ Occurrences(StateFile, written) = 1
        /\ written[Len(written)] = StateFile
        /\ pc = "idle"

\* C8: once the run has replaced backup_state.json, every full-snapshot file
\* has been written by the run, the incremental export has returned and has
\* written events.jsonl exactly if it found new rows, the state file was
\* written once and last, and the run is over and completed.
C8_StateWrittenLast ==
    StateFile \in WrittenSet =>
        /\ \A e \in SnapshotEntities : FileOf(e) \in WrittenSet
        /\ evCount >= 0
        /\ EventsFile \in WrittenSet <=> evCount > 0
        /\ Occurrences(StateFile, written) = 1
        /\ written[Len(written)] = StateFile
        /\ pc = "idle"
        /\ last = "completed"

\* a completed run that wrote all six entity files and then the state file
C8_Witness ==
    /\ StateFile \in WrittenSet
    /\ Len(written) = 7
    /\ EventsFile \in WrittenSet
    /\ disk[StateFile] # disk0[StateFile]

\* d is an element of OrderedBy(S): the rows of S, each once, ascending by key
IsQueryResult(d, S) ==
    /\ Len(d) = Cardinality(S)
    /\ Range(d) = S
    /\ Ascending(d)

\* C9: the file of a full-snapshot entity differs from its content at the
\* run's start only if an exportTable call of the run buffered every row of
\* its query and replaced the file through the atomic writer; a call that
\* fails after some rows were buffered returns an error and leaves the file
\* as it was.
C9_NoPartialExport ==
    LET W == WrittenSet IN
    \A e \in SnapshotEntities :
        IF FileOf(e) \notin W
        THEN disk[FileOf(e)] = disk0[FileOf(e)]
        ELSE /\ disk[FileOf(e)].exists
             /\ \E j \in 0..Len(log), hw \in BOOLEAN :
                   IsQueryResult(disk[FileOf(e)].data,
                                 Selected(e, Prefix(log, Len(log) - j), hw, 0))

\* the scan of the issues query failed with rows buffered: issues.jsonl still
\* holds the one row of the previous run
C9_Witness ==
    /\ last = "scanerr"
    /\ written = <<>>
    /\ evCount = -1
    /\ RowCount("issues", log) = 2
    /\ disk["issues.jsonl"] = File(<<Issue(1)>>)

\* C10: when the incremental query finds no row above the watermark, the call
\* returns without error (the run goes on to the comments), the watermark and
\* the events count in the state stay as loaded, and events.jsonl is neither
\* created nor modified.
C10_NoNewRows ==
    evCount = 0 =>
        /\ disk[EventsFile] = disk0[EventsFile]
        /\ EventsFile \notin WrittenSet
        /\ pc # "idle" =>
              /\ PastEvents
              /\ state.LastEventID = StartWM
              /\ state.Counts.events = Loaded.Counts.events

\* a first run on a store without events went on to the comments without
\* creating events.jsonl
C10_Witness ==
    /\ evCount = 0
    /\ now = 1
    /\ pc = "exportTable"
    /\ ent = "comments"
    /\ ~disk[EventsFile].exists
    /\ ~disk[TmpName].exists

\* position of an entity, and of its file, in the order of runBackupExport
Rank(e) == IF e = "none" THEN 0
           ELSE IF e = "issues" THEN 1
           ELSE IF e = "events" THEN 2
           ELSE IF e = "comments" THEN 3
           ELSE IF e = "dependencies" THEN 4
           ELSE IF e = "labels" THEN 5
           ELSE IF e = "config" THEN 6
           ELSE 7
RankOfFile(f) == IF f = "issues.jsonl" THEN 1
                 ELSE IF f = EventsFile THEN 2
                 ELSE IF f = "comments.jsonl" THEN 3
                 ELSE IF f = "dependencies.jsonl" THEN 4
                 ELSE IF f = "labels.jsonl" THEN 5
                 ELSE IF f = "config.jsonl" THEN 6
                 ELSE 7

\* the current run has returned from the export of entity e without error
Exported(e) == pc # "idle" /\ Rank(e) < Rank(ent)

NoDuplicates(q) == \A i, j \in 1..Len(q) : i # j => q[i] # q[j]

\* of two rows with the same key the primary table's row comes first
PrimaryBeforeShadow(q) ==
    \A i, j \in 1..Len(q) :
        (i < j /\ q[i].id = q[j].id) =>
            ~(IsWispTable(q[i].tbl) /\ ~IsWispTable(q[j].tbl))

\* the run's exportTable call has returned from its query without error
QueryReturned == pc = "exportTable" /\ pc' # "exportTable" /\ last' = "step"

\* the run's atomicWriteFile call has returned without error
RenameReturned == pc = "awRename" /\ pc' # "awRename" /\ last' = "step"

C11_Step ==
    /\ (QueryReturned /\ Selected(ent, log, hasWisps, 0) = {}) =>
          /\ pc' = "awCreate"
          /\ ent' = ent
          /\ lines' = <<>>
    /\ (pc \in AwPcs /\ pc' \in AwPcs) => (ent' = ent /\ lines' = lines)
    /\ (RenameReturned /\ ent \in SnapshotEntities /\ lines = <<>>) =>
          /\ disk'[FileOf(ent)] = File(<<>>)
          /\ written' = Append(written, FileOf(ent))
          /\ state'.Counts[ent] = 0
          /\ pc' = PcOf(ent')

\* C11: when the query of an exportTable call returns no rows, the call goes
\* on to the atomic writer with an empty buffer, and when the writer returns
\* the entity's file exists and is empty, whatever it held before, the
\* entity's count is 0, and the run goes on to its next step without error.
C11_EmptySnapshotWritten == [][C11_Step]_vars

\* issues.jsonl held one row when the run started; the table was emptied, and
\* the run has replaced the file by an empty file and counted 0 issues
C11_Witness ==
    /\ Exported("issues")
    /\ disk0["issues.jsonl"] = File(<<Issue(1)>>)
    /\ RowCount("issues", log) = 0
    /\ written[1] = "issues.jsonl"
    /\ disk["issues.jsonl"] = File(<<>>)
    /\ state.Counts.issues = 0

\* C12: a file written as a whole by the run (a full-snapshot file, or
\* events.jsonl on a first export) lists the union of the rows of the primary
\* and of the shadow table, each once, ascending by key, and of two rows with
\* the same key the primary table's row first.
C12_ShadowMergeOrder ==
    \A e \in Range(Entities) :
        (Exported(e) /\ FileOf(e) \in WrittenSet /\ (e = "events" => StartWM = 0)) =>
            LET d == disk[FileOf(e)].data IN
            /\ Ascending(d)
            /\ NoDuplicates(d)
            /\ \E j \in 0..Len(log) :
                  Range(d) = Selected(e, Prefix(log, j), hasWisps, 0)
            /\ PrimaryBeforeShadow(d)

\* the commit the store is at equals the non-empty commit the state records
SameNonEmptyCommit ==
    /\ CommitAt(Len(log)) = PersistedCommit(disk)
    /\ PersistedCommit(disk) # ""

C13_Step ==
    /\ force => pc' # "GetCurrentCommit"
    /\ (pc # "idle" /\ last' = "short") => ChangeDetection
    /\ pc = "GetCurrentCommit" => state = loadBackupState(disk).state
    /\ (ChangeDetection /\ last' # "error") =>
          (last' = "short" <=> SameNonEmptyCommit)

\* C13: a run that was not forced and did not fail before the change
\* detection short-circuits exactly when the store's current commit equals
\* the loaded LastDoltCommit and that commit is not empty; a forced run never
\* queries the commit at its start and never short-circuits (a run
\* short-circuits only in the change detection); a run that loaded an empty
\* LastDoltCommit never short-circuits, even when the current commit is empty
\* too.
C13_ShortCircuitIff == [][C13_Step]_vars

\* the second run, not forced, has passed its change detection although the
\* state file of the first run records the empty commit and the store is
\* still at the empty commit
C13_Witness ==
    /\ now = 2
    /\ pc = "tableExistsCheck"
    /\ last = "changed"
    /\ disk[StateFile].exists
    /\ PersistedCommit(disk) = ""
    /\ log = <<>>

\* C14 as stated: when the incremental events export starts, the exports of
\* issues, comments, dependencies, labels and config have completed; the
\* events export has returned before the final commit query, and it runs once.
C14_SnapshotsBeforeEvents ==
    /\ pc = "exportEvents" =>
          /\ \A e \in SnapshotEntities : FileOf(e) \in WrittenSet
          /\ evCount = -1
    /\ pc = "commit" => evCount >= 0

\* C14: the run writes its files in the order issues, events, comments,
\* dependencies, labels, config, state: when the incremental events export
\* starts, issues.jsonl is the only file the run has written and the export
\* has not run before in this run; from the export of the comments on it has
\* returned; and at the final commit query all five full-snapshot files have
\* been written.
C14_EventsAfterIssues ==
    /\ \A i \in 1..(Len(written) - 1) :
          RankOfFile(written[i]) <= RankOfFile(written[i + 1])
    /\ pc = "exportEvents" =>
          /\ written = <<"issues.jsonl">>
          /\ evCount = -1
    /\ (pc # "idle" /\ ent = "issues") => evCount = -1
    /\ PastEvents => evCount >= 0
    /\ pc = "commit" =>
          \A e \in SnapshotEntities : FileOf(e) \in WrittenSet

\* the incremental export is about to query and only issues.jsonl exists
C14_Witness ==
    /\ pc = "exportEvents"
    /\ written = <<"issues.jsonl">>
    /\ disk["issues.jsonl"].exists
    /\ \A e \in SnapshotEntities \ {"issues"} : ~disk[FileOf(e)].exists

\* C15: the state a completed run saves and returns counts, for events, the
\* loaded count plus the rows this run's incremental export wrote, and for
\* each full-snapshot entity the rows the run exported to its file.
C15_CountUpdate ==
    last = "completed" =>
        LET st == loadBackupState(disk).state IN
        /\ ret = Returned(st)
        /\ evCount = Len(evRows)
        /\ st.Counts.events = Loaded.Counts.events + evCount
        /\ \A e \in SnapshotEntities :
              /\ FileOf(e) \in WrittenSet
              /\ st.Counts[e] = Len(disk[FileOf(e)].data)

\* the second run added its one new event to the one event counted before
\* and counted the rows of the empty issues.jsonl it wrote
C15_Witness ==
    /\ last = "completed"
    /\ Loaded.Counts.events = 1
    /\ evCount = 1
    /\ loadBackupState(disk).state.Counts.events = 2
    /\ loadBackupState(disk).state.Counts.issues = 0
    /\ disk["issues.jsonl"] = File(<<>>)

C16_Step ==
    (pc \in AwPcs /\ last' = "awerr") =>
        /\ ret' = NoRet
        /\ disk'[FileOf(ent)] = disk[FileOf(ent)]
        /\ ~disk'[TmpName].exists
        /\ stray' = stray

\* C16: a step in which atomicWriteFile fails returns an error, leaves the
\* target path with the content it had, and leaves no temp file of the call
\* in the directory.
C16_FailedWriteCleansUp == [][C16_Step]_vars

\* C17: once a run whose probe saw the wisps tables as they are has returned
\* from its incremental export (events.jsonl is not touched again before the
\* run completes), every row the events table and the wisp_events table held
\* when the incremental query executed is a line of events.jsonl.
C17_IncrementalComplete ==
    (PastEvents /\ hasWisps = wispsExist) =>
        evSeen \subseteq Range(disk[EventsFile].data)

\* C18: after a completed run the events count in backup_state.json is the
\* number of lines of events.jsonl.
C18_CountMatchesFile ==
    last = "completed" =>
        loadBackupState(disk).state.Counts.events = Len(disk[EventsFile].data)

\* C19: after a completed run the watermark in backup_state.json is the
\* largest key among the lines of events.jsonl (0 when the file is absent or
\* empty); and within a run the in-memory watermark stays the loaded one
\* until the write or append of the new rows has succeeded.
C19_WatermarkMatchesFile ==
    /\ last = "completed" => PersistedWM(disk) = MaxID(disk[EventsFile].data)
    /\ (pc # "idle" /\ ent \in {"issues", "events"}) =>
          state.LastEventID = StartWM
    /\ PastEvents =>
          state.LastEventID = (IF evCount > 0 THEN MaxID(evRows) ELSE StartWM)

\* C20: a completed run that loaded watermark 0 and found rows leaves
\* events.jsonl holding exactly these rows, each once, whatever earlier
\* failed runs had written to it; and events.jsonl holds a line twice only
\* after a run that loaded a watermark above 0 has appended to it and then
\* failed or crashed.
C20_NoDuplicatesAtZero ==
    /\ (last = "completed" /\ StartWM = 0 /\ evCount > 0) =>
          /\ disk[EventsFile] = File(evRows)
          /\ NoDuplicates(evRows)
    /\ ~NoDuplicates(disk[EventsFile].data) => failedAppend

\* a run that loaded watermark 0 wrote events.jsonl and failed; the next run
\* loaded watermark 0 again, completed, and the file holds its two rows once
C20_Witness ==
    /\ last = "completed"
    /\ now = 2
    /\ StartWM = 0
    /\ disk0[EventsFile] = File(<<Event(1)>>)
    /\ ~disk0[StateFile].exists
    /\ disk[EventsFile] = File(<<Event(1), Event(2)>>)
    /\ PersistedWM(disk) = 2

====
